---- MODULE Spec2Model ----
(***************************************************************************)
(* Model of the harvest orchestrator of youtube_scraper.py (run_scraper),  *)
(* the three page harvesters it calls, the enrichment stage and the index  *)
(* reconciliation (save_video_metadata, the in-memory index, the index     *)
(* document VIDEOS_INDEX.json).                                            *)
(*                                                                         *)
(* Every call that touches the browser or the disk takes an outcome:       *)
(*   "ok"  - the call returns,                                             *)
(*   "exc" - the call raises an exception derived from Exception,          *)
(*   "ki"  - a KeyboardInterrupt is raised while the call is running.      *)
(* The handlers of the source decide what happens next: `except Exception` *)
(* catches "exc" only, a bare `except:` catches "exc" and "ki".            *)
(***************************************************************************)
EXTENDS Integers, Sequences, FiniteSets, TLC

\* ---------------------------------------------------------------- bounds
MaxIds == 2          \* distinct video ids the site can list
MaxList == 2         \* longest listing of one source
MaxRuns == 2         \* consecutive invocations of run_scraper
NumShorts == 1       \* entries of TARGET_SHORTS_CHANNELS in the model
NumChannels == 1     \* entries of TARGET_CHANNELS in the model
NumSearch == 1       \* entries of SEARCH_QUERIES in the model

Ids == 1..MaxIds
NumSources == NumShorts + NumChannels + NumSearch
Outcomes == {"ok", "exc", "ki"}

VARIABLES
    run,                 \* number of run_scraper invocations started
    pc,                  \* position of the running invocation
    src,                 \* position in the configured source order
    idx,                 \* position in the listing of the current source
    listing,             \* list returned by the harvester of the current source
    videos_index,        \* in-memory index: id -> content kind of the entry
    existing_video_ids,  \* known-id set
    index_file,          \* VIDEOS_INDEX.json as load_videos_index reads it
    files,               \* complete detail files on disk: <<partition, id>>
    content,             \* what each source renders when fully scrolled
    last,                \* the step just executed, its outcome and its item
    stages,              \* stages the current item went through
    prev,                \* how the previous invocation ended
    broken,              \* some harvester of this run caught an exception
    orphans0,            \* indexed ids without a detail file at run start
    unsaved,             \* ids whose latest detail-file write raised (this run)
    listedShort,         \* ids returned by a shorts harvester (this run)
    \* --- one call of a listing harvester, scroll loop in detail
    harvester,           \* "video": scrape_channel_videos, "shorts": scrape_shorts_channel
    spc,                 \* position inside the harvester
    last_height,         \* previous height measurement
    scroll_count,
    no_new_content,      \* stall count of the shorts loop
    scrolls,             \* scrollTo calls issued
    measures,            \* height measurements issued after a scroll
    fetches,             \* page.content() calls issued
    flat,                \* trailing run of measurements equal to their predecessor
    maxflat,             \* longest such run so far
    \* --- one call of scrape_shorts_channel, element loop in detail
    rendered,            \* elements of the final page, in document order
    shorts_elements,     \* the elements the harvester selected
    ppc,                 \* position inside the harvester
    epos,                \* position of the element loop
    shorts_list,         \* records accumulated: id and element position
    collected_ids,
    \* --- one call of enrich_video_metadata or enrich_shorts_metadata
    ekind,               \* "video": enrich_video_metadata, "shorts": enrich_shorts_metadata
    epc,                 \* position inside the function
    page,                \* the document the browser page holds
    title,               \* what the three extractors find in the title
    loc,                 \* the function's local variables
    extracted_metadata,  \* metadata['extracted_metadata']
    via,                 \* the code path that wrote the returned fields
    nav_failed,          \* page.goto of the detail page raised
    trouble,             \* an extractor call raised
    got,                 \* fields for which some extraction returned a value
    \* --- calls of the three text extractors on one text
    text,                \* the text, a sequence of fragments
    calls,               \* the calls made so far: extractor and result
    \* --- the output directory, as save_video_metadata and the API see it
    disk,                \* the JSON files under OUTPUT_ROOT_DIR
    saved,               \* the last call of save_video_metadata
    saves,               \* calls of save_video_metadata so far
    index_document,      \* VIDEOS_INDEX.json: missing, unparsable or a list of entries
    response             \* the last response of the API

runvars == <<run, pc, src, idx, listing, videos_index, existing_video_ids,
             index_file, files, content, last, stages, prev,
             broken, orphans0, unsaved, listedShort>>

hist == <<broken, unsaved, listedShort>>

scrollvars == <<harvester, spc, last_height, scroll_count, no_new_content,
                scrolls, measures, fetches, flat, maxflat>>

parsevars == <<rendered, shorts_elements, ppc, epos, shorts_list,
               collected_ids>>

enrichvars == <<ekind, epc, page, title, loc, extracted_metadata, via,
                nav_failed, trouble, got>>

textvars == <<text, calls>>

storevars == <<disk, saved, saves, index_document, response>>

later == <<textvars, storevars>>

others == <<scrollvars, parsevars, enrichvars, later>>

vars == <<runvars, others>>

\* ------------------------------------------------------ pure definitions
EmptyIndex == [i \in {} |-> "video"]

\* run_scraper, the three `for ... in TARGET_*` loops in their textual order
SourceKindVideosFirst(s) ==
    IF s <= NumChannels THEN "video"
    ELSE IF s <= NumChannels + NumShorts THEN "shorts"
    ELSE "search"

SourceKind(s) ==
    IF s <= NumShorts THEN "shorts"
    ELSE IF s <= NumShorts + NumChannels THEN "video"
    ELSE "search"

\* content_type written into the record by the harvester of that source
ContentType(s) == IF SourceKind(s) = "shorts" THEN "shorts" ELSE "video"

\* save_video_metadata: folder chosen from content_type
type_folder(content_type) ==
    IF content_type = "shorts" THEN "shorts" ELSE "videos"

DetailFile(s, id) == <<type_folder(ContentType(s)), id>>

HasFile(id) == \E p \in {"shorts", "videos"} : <<p, id>> \in files

\* load_videos_index followed by set(videos_index.keys())
KnownIdsForgotten(ix) == {}

KnownIds(ix) == DOMAIN ix

\* `if video_id not in existing_video_ids`
IsNewAlways(id, known) == TRUE

IsNew(id, known) == id \notin known

\* videos_index[video_id] = {...}
Upsert(ix, id, kind) ==
    [k \in (DOMAIN ix) \cup {id} |-> IF k = id THEN kind ELSE ix[k]]

Prefixes(seq) == { SubSeq(seq, 1, n) : n \in 0..Len(seq) }

RECURSIVE Dedup(_, _)
Dedup(seq, seen) ==
    IF seq = <<>> THEN <<>>
    ELSE IF Head(seq) \in seen THEN Dedup(Tail(seq), seen)
         ELSE <<Head(seq)>> \o Dedup(Tail(seq), seen \cup {Head(seq)})

\* what the harvester of source s returns when every call succeeds
FullListing(s) ==
    IF SourceKind(s) = "shorts" THEN Dedup(content[s], {}) ELSE content[s]

\* the listings a source may render: ids 1, 2, ... in order (wrapping around
\* when the listing is longer than the id space, so that an id is rendered
\* twice), or the same listing without its first element
FirstListing == [i \in 1..MaxList |-> ((i - 1) % MaxIds) + 1]

Listings == { FirstListing, Tail(FirstListing) }

\* Path.write_text truncates the file before writing: a write that raises
\* leaves the old file, or a truncated one
WriteOutcomesDropped(fs, f, o) == { fs }

WriteOutcomes(fs, f, o) ==
    IF o = "ok" THEN { fs \cup {f} }
    ELSE IF o = "exc" THEN { fs, fs \ {f} }
    ELSE { fs, fs \ {f}, fs \cup {f} }

Step(s, o, id) == [step |-> s, outcome |-> o, id |-> id]

Cur == listing[idx]

\* where the harvester goes when a call raises an exception it catches:
\* `except Exception: return videos` - the listing loop runs on what was
\* accumulated
HarvestReturns(l) ==
    /\ listing' = l
    /\ idx' = 1
    /\ pc' = "item"
    /\ listedShort' = IF SourceKind(src) = "shorts"
                      THEN listedShort \cup { l[i] : i \in 1..Len(l) }
                      ELSE listedShort

HarvestAborts ==
    /\ pc' = "aborted"
    /\ UNCHANGED <<listing, idx, listedShort, broken>>

\* `except Exception as e: logging.error(...); return videos`
HarvestFailsRaises(l) == HarvestAborts

HarvestFails(l) ==
    /\ HarvestReturns(l)
    /\ broken' = TRUE

HarvestContinues(p) ==
    /\ pc' = p
    /\ UNCHANGED <<listing, idx, listedShort, broken>>

\* `except Exception as save_error: logging.error(...); continue`
OnSaveErrorFallThrough ==
    /\ pc' = "upsert"
    /\ UNCHANGED idx

OnSaveErrorBreak ==
    /\ pc' = "item"
    /\ idx' = Len(listing) + 1

OnSaveError ==
    /\ pc' = "item"
    /\ idx' = idx + 1

\* existing_video_ids.add(video_id)
MarkSeenNot(known, id) == known

MarkSeen(known, id) == known \cup {id}

\* position after an item is finished or skipped: the next item of the source
NextItem ==
    /\ pc' = "item"
    /\ idx' = idx + 1

TypeOK ==
    /\ run \in 0..MaxRuns
    /\ src \in 1..NumSources
    /\ idx \in 1..(MaxList + 1)
    /\ existing_video_ids \subseteq Ids
    /\ DOMAIN videos_index \subseteq existing_video_ids
    /\ files \subseteq ({"shorts", "videos"} \X Ids)
    /\ last.outcome \in Outcomes
    /\ broken \in BOOLEAN
    /\ unsaved \subseteq Ids
    /\ listedShort \subseteq Ids

\* no harvester call is looked at in detail
ScrollOff ==
    /\ harvester = "none"
    /\ spc = "off"
    /\ last_height = 0
    /\ scroll_count = 0
    /\ no_new_content = 0
    /\ scrolls = 0
    /\ measures = 0
    /\ fetches = 0
    /\ flat = 0
    /\ maxflat = 0

ParseOff ==
    /\ rendered = <<>>
    /\ shorts_elements = <<>>
    /\ ppc = "off"
    /\ epos = 1
    /\ shorts_list = <<>>
    /\ collected_ids = {}

\* Python None; every value of the enrichment model is a string
None == "<None>"

NoLocals ==
    [title_date |-> None, title_place |-> None, title_topic |-> None,
     description |-> None, desc_date |-> None, desc_place |-> None,
     desc_topic |-> None, page_date |-> None]

\* extract_video_metadata leaves the four fields None, extract_shorts_metadata
\* fills them with placeholders
RawExtracted(kind) ==
    IF kind = "shorts"
       THEN [date |-> "Not Available", place |-> "Not Applicable",
             topic |-> "Not Applicable", description |-> "Not Applicable"]
       ELSE [date |-> None, place |-> None, topic |-> None,
             description |-> None]

EnrichOff ==
    /\ ekind = "none"
    /\ epc = "off"
    /\ page = "other"
    /\ title = [date |-> None, place |-> None, topic |-> None]
    /\ loc = NoLocals
    /\ extracted_metadata = RawExtracted("video")
    /\ via = "none"
    /\ nav_failed = FALSE
    /\ trouble = FALSE
    /\ got = {}

\* no extractor call is looked at on its own
TextOff ==
    /\ text = <<>>
    /\ calls = <<>>

\* nothing was saved and no request was made
NoCall == [outcome |-> "none"]

StoreOff ==
    /\ disk = {}
    /\ saved = NoCall
    /\ saves = 0
    /\ index_document = [state |-> "missing", entries |-> <<>>]
    /\ response = NoCall

LaterOff ==
    /\ TextOff
    /\ StoreOff

\* ------------------------------------------------------------------ Init
Init ==
    /\ ScrollOff
    /\ ParseOff
    /\ EnrichOff
    /\ LaterOff
    /\ run = 0
    /\ pc = "idle"
    /\ src = 1
    /\ idx = 1
    /\ listing = <<>>
    /\ videos_index = EmptyIndex
    /\ existing_video_ids = {}
    /\ \E d \in SUBSET {1} :
          /\ index_file = [i \in d |-> "video"]
          /\ \E g \in SUBSET d : files = { <<"videos", i>> : i \in g }
    /\ content \in [1..NumSources -> Listings]
    /\ last = Step("none", "ok", 0)
    /\ stages = <<>>
    /\ prev = "none"
    /\ broken = FALSE
    /\ orphans0 = {}
    /\ unsaved = {}
    /\ listedShort = {}

\* --------------------------------------------------------------- actions
\* run_scraper: load the index, build the known-id set
StartRun ==
    /\ pc \in {"idle", "done", "aborted"}
    /\ run < MaxRuns
    /\ run' = run + 1
    /\ videos_index' = index_file
    /\ existing_video_ids' = KnownIds(index_file)
    /\ prev' = IF pc = "done" /\ broken THEN "done_broken" ELSE pc
    /\ broken' = FALSE
    /\ unsaved' = {}
    /\ listedShort' = {}
    /\ orphans0' = { i \in DOMAIN index_file :
                        <<type_folder(index_file[i]), i>> \notin files }
    /\ pc' = "launch"
    /\ src' = 1
    /\ idx' = 1
    /\ listing' = <<>>
    /\ stages' = <<>>
    /\ last' = Step("start", "ok", 0)
    /\ UNCHANGED <<index_file, files, content>>
    /\ UNCHANGED others

\* sync_playwright(), chromium.launch, new_context, new_page
Launch ==
    /\ pc = "launch"
    /\ \E o \in Outcomes :
          /\ last' = Step("launch", o, 0)
          /\ pc' = IF o = "ok" THEN "h_nav" ELSE "aborted"
    /\ UNCHANGED <<run, src, idx, listing, videos_index, existing_video_ids,
                   index_file, files, content, stages, prev, orphans0, hist>>
    /\ UNCHANGED others

\* harvester: page.goto of the listing page
HarvestNavigate ==
    /\ pc = "h_nav"
    /\ \E o \in Outcomes :
          /\ last' = Step("h_nav", o, 0)
          /\ IF o = "ok" THEN HarvestContinues("h_wait")
             ELSE IF o = "exc" THEN HarvestFails(<<>>)
             ELSE HarvestAborts
    /\ UNCHANGED <<run, src, videos_index, existing_video_ids, index_file,
                   files, content, stages, prev, orphans0, unsaved>>
    /\ UNCHANGED others

\* harvester: page.wait_for_selector on the listing page.  The shorts
\* harvester wraps it in `try: ... except: continue`.
HarvestWait ==
    /\ pc = "h_wait"
    /\ \E o \in Outcomes :
          /\ last' = Step("h_wait", o, 0)
          /\ IF SourceKind(src) = "shorts" \/ o = "ok"
                THEN HarvestContinues("h_scroll")
             ELSE IF o = "exc" THEN HarvestFails(<<>>)
             ELSE HarvestAborts
    /\ UNCHANGED <<run, src, videos_index, existing_video_ids, index_file,
                   files, content, stages, prev, orphans0, unsaved>>
    /\ UNCHANGED others

\* harvester: the scroll loop
HarvestScroll ==
    /\ pc = "h_scroll"
    /\ \E o \in Outcomes :
          /\ last' = Step("h_scroll", o, 0)
          /\ IF o = "ok" THEN HarvestContinues("h_parse")
             ELSE IF o = "exc" THEN HarvestFails(<<>>)
             ELSE HarvestAborts
    /\ UNCHANGED <<run, src, videos_index, existing_video_ids, index_file,
                   files, content, stages, prev, orphans0, unsaved>>
    /\ UNCHANGED others

\* harvester: page.content(), parse, one record per listing element
HarvestParse ==
    /\ pc = "h_parse"
    /\ \E o \in Outcomes :
          /\ last' = Step("h_parse", o, 0)
          /\ IF o = "ok"
                THEN HarvestReturns(FullListing(src)) /\ UNCHANGED broken
             ELSE IF o = "exc"
                THEN \E l \in Prefixes(FullListing(src)) : HarvestFails(l)
             ELSE HarvestAborts
    /\ UNCHANGED <<run, src, videos_index, existing_video_ids, index_file,
                   files, content, stages, prev, orphans0, unsaved>>
    /\ UNCHANGED others

\* run_scraper: end of the listing loop of a source, time.sleep(1)
SourceDone ==
    /\ pc = "item"
    /\ idx > Len(listing)
    /\ \E o \in {"ok", "ki"} :
          /\ last' = Step("sleep", o, 0)
          /\ IF o = "ki" THEN pc' = "aborted" /\ UNCHANGED src
             ELSE IF src < NumSources THEN pc' = "h_nav" /\ src' = src + 1
             ELSE pc' = "close" /\ UNCHANGED src
    /\ stages' = <<>>
    /\ UNCHANGED <<run, idx, listing, videos_index, existing_video_ids,
                   index_file, files, content, prev, orphans0, hist>>
    /\ UNCHANGED others

\* run_scraper: `else: logging.debug("Skipping existing ...")`
SkipExisting ==
    /\ pc = "item"
    /\ idx <= Len(listing)
    /\ ~IsNew(Cur, existing_video_ids)
    /\ last' = Step("skip", "ok", Cur)
    /\ stages' = <<>>
    /\ NextItem
    /\ UNCHANGED <<run, src, listing, videos_index, existing_video_ids,
                   index_file, files, content, prev, orphans0, hist>>
    /\ UNCHANGED others

\* enrich_shorts_metadata / scrape_video_description: page.goto of the
\* item's detail page
EnrichNavigate ==
    /\ pc = "item"
    /\ idx <= Len(listing)
    /\ IsNew(Cur, existing_video_ids)
    /\ \E o \in Outcomes :
          /\ last' = Step("e_nav", o, Cur)
          /\ pc' = IF o = "ki" THEN "aborted"
                   ELSE IF SourceKind(src) = "shorts"
                        THEN (IF o = "ok" THEN "e_content" ELSE "save")
                   ELSE (IF o = "ok" THEN "e_wait" ELSE "e_pagedate")
    /\ stages' = <<"enrich">>
    /\ UNCHANGED <<run, src, idx, listing, videos_index, existing_video_ids,
                   index_file, files, content, prev, orphans0, hist>>
    /\ UNCHANGED others

\* scrape_video_description: wait_for_selector inside `try: ... except:`
DescriptionWait ==
    /\ pc = "e_wait"
    /\ \E o \in Outcomes :
          /\ last' = Step("e_wait", o, Cur)
          /\ pc' = IF o = "ok" THEN "e_expand" ELSE "e_pagedate"
    /\ UNCHANGED <<run, src, idx, listing, videos_index, existing_video_ids,
                   index_file, files, content, stages, prev, orphans0, hist>>
    /\ UNCHANGED others

\* scrape_video_description: click "Show more" inside `try: ... except: pass`
DescriptionExpand ==
    /\ pc = "e_expand"
    /\ \E o \in Outcomes :
          /\ last' = Step("e_expand", o, Cur)
          /\ pc' = "e_content"
    /\ UNCHANGED <<run, src, idx, listing, videos_index, existing_video_ids,
                   index_file, files, content, stages, prev, orphans0, hist>>
    /\ UNCHANGED others

\* page.content() and the description extraction, under `except Exception`
EnrichContent ==
    /\ pc = "e_content"
    /\ \E o \in Outcomes :
          /\ last' = Step("e_content", o, Cur)
          /\ pc' = IF o = "ki" THEN "aborted" ELSE "e_pagedate"
    /\ UNCHANGED <<run, src, idx, listing, videos_index, existing_video_ids,
                   index_file, files, content, stages, prev, orphans0, hist>>
    /\ UNCHANGED others

\* extract_date_from_page_metadata / extract_shorts_date_from_page
PageDate ==
    /\ pc = "e_pagedate"
    /\ \E o \in Outcomes :
          /\ last' = Step("e_pagedate", o, Cur)
          /\ pc' = IF o = "ki" THEN "aborted" ELSE "save"
    /\ UNCHANGED <<run, src, idx, listing, videos_index, existing_video_ids,
                   index_file, files, content, stages, prev, orphans0, hist>>
    /\ UNCHANGED others

\* run_scraper: save_video_metadata; `except Exception: ...; continue`
SaveMetadata ==
    /\ pc = "save"
    /\ \E o \in Outcomes :
          /\ last' = Step("save", o, Cur)
          /\ files' \in WriteOutcomes(files, DetailFile(src, Cur), o)
          /\ IF o = "ok"
                THEN /\ pc' = "upsert"
                     /\ unsaved' = unsaved \ {Cur}
                     /\ UNCHANGED idx
             ELSE IF o = "exc"
                THEN /\ OnSaveError
                     /\ unsaved' = unsaved \cup {Cur}
             ELSE /\ pc' = "aborted"
                  /\ UNCHANGED <<idx, unsaved>>
    /\ stages' = Append(stages, "save")
    /\ UNCHANGED <<run, src, listing, videos_index, existing_video_ids,
                   index_file, content, prev, orphans0, broken, listedShort>>
    /\ UNCHANGED others

\* run_scraper: build the index entry, store it, add the id to the known
\* ids.  The entry is built before it is stored, so an exception raised by
\* the lookups leaves the index as it was.
IndexUpsert ==
    /\ pc = "upsert"
    /\ \E o \in Outcomes :
          /\ last' = Step("upsert", o, Cur)
          /\ IF o = "ok"
                THEN /\ videos_index' = Upsert(videos_index, Cur, ContentType(src))
                     /\ existing_video_ids' = MarkSeen(existing_video_ids, Cur)
                     /\ NextItem
             ELSE IF o = "exc"
                THEN /\ pc' = "fallback"
                     /\ UNCHANGED <<videos_index, existing_video_ids, idx>>
             ELSE /\ pc' = "aborted"
                  /\ UNCHANGED <<videos_index, existing_video_ids, idx>>
    /\ stages' = Append(stages, "upsert")
    /\ UNCHANGED <<run, src, listing, index_file, files, content, prev,
                   orphans0, hist>>
    /\ UNCHANGED others

\* run_scraper: `except Exception as e:` of the item - save again, mark seen
FallbackSave ==
    /\ pc = "fallback"
    /\ \E o \in Outcomes :
          /\ last' = Step("fallback", o, Cur)
          /\ files' \in WriteOutcomes(files, DetailFile(src, Cur), o)
          /\ IF o = "ok"
                THEN /\ existing_video_ids' = MarkSeen(existing_video_ids, Cur)
                     /\ NextItem
                     /\ UNCHANGED unsaved
             ELSE IF o = "exc"
                THEN /\ NextItem
                     /\ unsaved' = unsaved \cup {Cur}
                     /\ UNCHANGED existing_video_ids
             ELSE /\ pc' = "aborted"
                  /\ UNCHANGED <<existing_video_ids, idx, unsaved>>
    /\ stages' = Append(stages, "fallback")
    /\ UNCHANGED <<run, src, listing, videos_index, index_file, content, prev,
                   orphans0, broken, listedShort>>
    /\ UNCHANGED others

\* run_scraper: browser.close()
CloseBrowser ==
    /\ pc = "close"
    /\ \E o \in Outcomes :
          /\ last' = Step("close", o, 0)
          /\ pc' = IF o = "ok" THEN "persist" ELSE "aborted"
    /\ UNCHANGED <<run, src, idx, listing, videos_index, existing_video_ids,
                   index_file, files, content, stages, prev, orphans0, hist>>
    /\ UNCHANGED others

\* run_scraper: save_videos_index(videos_index)
PersistIndex ==
    /\ pc = "persist"
    /\ \E o \in Outcomes :
          /\ last' = Step("persist", o, 0)
          /\ IF o = "ok"
                THEN index_file' = videos_index /\ pc' = "done"
             ELSE index_file' \in {index_file, EmptyIndex} /\ pc' = "aborted"
    /\ UNCHANGED <<run, src, idx, listing, videos_index, existing_video_ids,
                   files, content, stages, prev, orphans0, hist>>
    /\ UNCHANGED others

Next ==
    \/ StartRun
    \/ Launch
    \/ HarvestNavigate
    \/ HarvestWait
    \/ HarvestScroll
    \/ HarvestParse
    \/ SourceDone
    \/ SkipExisting
    \/ EnrichNavigate
    \/ DescriptionWait
    \/ DescriptionExpand
    \/ EnrichContent
    \/ PageDate
    \/ SaveMetadata
    \/ IndexUpsert
    \/ FallbackSave
    \/ CloseBrowser
    \/ PersistIndex

Spec == Init /\ [][Next]_vars

\* ------------------------------------------------- the two scroll loops
\* One call of scrape_channel_videos or scrape_shorts_channel from the first
\* height measurement to the return, with every page call taking an outcome.
\* The page answers a height measurement with any height next to the
\* previous one: smaller, equal or larger.
max_scrolls == 100

\* `no_new_content < 3` / `no_new_content >= 3`
StallLimit == 3

\* heights the first measurement may return
FirstHeights == {1, 2}

MeasuredHeights(h) == { n \in {h - 1, h, h + 1} : n >= 1 }

\* the state run_scraper is in while no run is started
RunIdle ==
    /\ run = 0
    /\ pc = "idle"
    /\ src = 1
    /\ idx = 1
    /\ listing = <<>>
    /\ videos_index = EmptyIndex
    /\ existing_video_ids = {}
    /\ index_file = EmptyIndex
    /\ files = {}
    /\ content = [s \in 1..NumSources |-> FirstListing]
    /\ last = Step("none", "ok", 0)
    /\ stages = <<>>
    /\ prev = "none"
    /\ broken = FALSE
    /\ orphans0 = {}
    /\ unsaved = {}
    /\ listedShort = {}

\* `while scroll_count < max_scrolls:` (videos) and
\* `while scroll_count < max_scrolls and no_new_content < 3:` (shorts)
LoopGuardUncapped ==
    IF harvester = "video" THEN TRUE
    ELSE no_new_content < StallLimit

LoopGuard ==
    IF harvester = "video" THEN scroll_count < max_scrolls
    ELSE scroll_count < max_scrolls /\ no_new_content < StallLimit

\* videos: `if new_height == last_height: break`
ChannelBreaksLate(new_height) == new_height = last_height /\ flat >= 1

ChannelBreaks(new_height) == new_height = last_height

\* shorts: the stall count after the measurement
\* `if new_height == last_height: no_new_content += 1 ... else: no_new_content = 0`
StallCountKept(new_height) ==
    IF new_height = last_height THEN no_new_content + 1 ELSE no_new_content

StallCount(new_height) ==
    IF new_height = last_height THEN no_new_content + 1 ELSE 0

\* shorts: `if no_new_content >= 3: break`
ShortsBreaks(new_height) == StallCount(new_height) >= StallLimit

\* the harvester leaves through `except Exception: return videos` ("failed")
\* or lets the KeyboardInterrupt through ("raised")
HarvesterLeaves(o) ==
    /\ spc' = IF o = "exc" THEN "failed" ELSE "raised"
    /\ UNCHANGED <<last_height, scroll_count, no_new_content, flat, maxflat>>

ScrollInit ==
    /\ RunIdle
    /\ ParseOff
    /\ EnrichOff
    /\ LaterOff
    /\ harvester \in {"video", "shorts"}
    /\ spc = "start"
    /\ last_height = 0
    /\ scroll_count = 0
    /\ no_new_content = 0
    /\ scrolls = 0
    /\ measures = 0
    /\ fetches = 0
    /\ flat = 0
    /\ maxflat = 0

\* `last_height = page.evaluate("document.documentElement.scrollHeight")`
FirstMeasure ==
    /\ spc = "start"
    /\ \E o \in Outcomes :
          IF o = "ok"
             THEN /\ last_height' \in FirstHeights
                  /\ spc' = "loop"
                  /\ UNCHANGED <<scroll_count, no_new_content, flat,
                                 maxflat>>
          ELSE HarvesterLeaves(o)
    /\ UNCHANGED <<harvester, scrolls, measures, fetches>>
    /\ UNCHANGED <<runvars, parsevars, enrichvars, later>>

\* loop head with a true condition: scrollTo, wait_for_timeout(1500)
ScrollTo ==
    /\ spc = "loop"
    /\ LoopGuard
    /\ scrolls' = scrolls + 1
    /\ \E o \in Outcomes :
          IF o = "ok"
             THEN /\ spc' = "measure"
                  /\ UNCHANGED <<last_height, scroll_count, no_new_content,
                                 flat, maxflat>>
          ELSE HarvesterLeaves(o)
    /\ UNCHANGED <<harvester, measures, fetches>>
    /\ UNCHANGED <<runvars, parsevars, enrichvars, later>>

\* loop head with a false condition
LoopExit ==
    /\ spc = "loop"
    /\ ~LoopGuard
    /\ spc' = "fetch"
    /\ UNCHANGED <<harvester, last_height, scroll_count, no_new_content,
                   scrolls, measures, fetches, flat, maxflat>>
    /\ UNCHANGED <<runvars, parsevars, enrichvars, later>>

\* `new_height = page.evaluate(...)` and the rest of the loop body
MeasureHeight ==
    /\ spc = "measure"
    /\ measures' = measures + 1
    /\ \E o \in Outcomes :
          IF o = "ok"
             THEN \E new_height \in MeasuredHeights(last_height) :
                    /\ flat' = IF new_height = last_height THEN flat + 1 ELSE 0
                    /\ maxflat' = IF flat' > maxflat THEN flat' ELSE maxflat
                    /\ IF harvester = "video"
                          THEN IF ChannelBreaks(new_height)
                                  THEN /\ spc' = "fetch"
                                       /\ UNCHANGED <<last_height, scroll_count,
                                                      no_new_content>>
                                  ELSE /\ spc' = "loop"
                                       /\ last_height' = new_height
                                       /\ scroll_count' = scroll_count + 1
                                       /\ UNCHANGED no_new_content
                          ELSE /\ no_new_content' = StallCount(new_height)
                               /\ IF ShortsBreaks(new_height)
                                     THEN /\ spc' = "fetch"
                                          /\ UNCHANGED <<last_height,
                                                         scroll_count>>
                                     ELSE /\ spc' = "loop"
                                          /\ last_height' = new_height
                                          /\ scroll_count' = scroll_count + 1
          ELSE HarvesterLeaves(o)
    /\ UNCHANGED <<harvester, scrolls, fetches>>
    /\ UNCHANGED <<runvars, parsevars, enrichvars, later>>

\* `html_content = page.content()`, parse, return the list
FetchContent ==
    /\ spc = "fetch"
    /\ fetches' = fetches + 1
    /\ \E o \in Outcomes :
          spc' = IF o = "ok" THEN "returned"
                 ELSE IF o = "exc" THEN "failed" ELSE "raised"
    /\ UNCHANGED <<harvester, last_height, scroll_count, no_new_content,
                   scrolls, measures, flat, maxflat>>
    /\ UNCHANGED <<runvars, parsevars, enrichvars, later>>

ScrollNext ==
    \/ FirstMeasure
    \/ ScrollTo
    \/ LoopExit
    \/ MeasureHeight
    \/ FetchContent

\* the harvester runs in the single control thread and every page call
\* returns or raises within its timeout
ScrollSpec ==
    ScrollInit /\ [][ScrollNext]_vars /\ WF_vars(ScrollNext)

\* ------------------------------------- the element loop of the shorts page
\* One call of scrape_shorts_channel from page.content() to the return.  An
\* element of the page is a ytm-shorts-lockup-view-model ("lockup") or an
\* <a href=".../shorts/..."> ("link"); it carries an id, and a record can be
\* extracted from it (title link, id and English title found) or not.
MaxElems == 3

max_shorts == 999999

Elements == [tag : {"lockup", "link"}, id : Ids, extractable : BOOLEAN]

Renders == UNION { [1..n -> Elements] : n \in 0..MaxElems }

\* Method 1, `soup.find_all('ytm-shorts-lockup-view-model')`; Method 2 when
\* Method 1 found nothing, `soup.find_all('a', {'href': ...})`
WithTag(seq, t) == SelectSeq(seq, LAMBDA e : e.tag = t)

SelectShortsElements(seq) ==
    IF Len(WithTag(seq, "lockup")) # 0 THEN WithTag(seq, "lockup")
    ELSE WithTag(seq, "link")

\* `if video_id not in collected_ids`
IsCollectedNever(id, ids) == FALSE

IsCollected(id, ids) == id \in ids

\* the record built from the element at position p
Record(p) == [video_id |-> shorts_elements[p].id, at |-> p]

ParseInit ==
    /\ RunIdle
    /\ ScrollOff
    /\ EnrichOff
    /\ LaterOff
    /\ rendered \in Renders
    /\ shorts_elements = <<>>
    /\ ppc = "content"
    /\ epos = 1
    /\ shorts_list = <<>>
    /\ collected_ids = {}

\* `html_content = page.content()`, parse, select the elements
SelectElements ==
    /\ ppc = "content"
    /\ \E o \in Outcomes :
          IF o = "ok"
             THEN /\ shorts_elements' = SelectShortsElements(rendered)
                  /\ ppc' = "each"
          ELSE /\ ppc' = IF o = "exc" THEN "failed" ELSE "raised"
               /\ UNCHANGED shorts_elements
    /\ UNCHANGED <<rendered, epos, shorts_list, collected_ids>>
    /\ UNCHANGED <<runvars, scrollvars, enrichvars, later>>

\* one pass of `for idx, shorts_elem in enumerate(shorts_elements):`
ExtractElement ==
    /\ ppc = "each"
    /\ epos <= Len(shorts_elements)
    /\ Len(shorts_list) < max_shorts
    /\ \E o \in Outcomes :
          IF o = "ok"
             THEN /\ epos' = epos + 1
                  /\ ppc' = "each"
                  /\ IF /\ shorts_elements[epos].extractable
                        /\ ~IsCollected(shorts_elements[epos].id, collected_ids)
                        THEN /\ shorts_list' = Append(shorts_list, Record(epos))
                             /\ collected_ids' = collected_ids
                                    \cup {shorts_elements[epos].id}
                        ELSE UNCHANGED <<shorts_list, collected_ids>>
          ELSE /\ ppc' = IF o = "exc" THEN "failed" ELSE "raised"
               /\ UNCHANGED <<epos, shorts_list, collected_ids>>
    /\ UNCHANGED <<rendered, shorts_elements>>
    /\ UNCHANGED <<runvars, scrollvars, enrichvars, later>>

\* end of the loop, `return shorts_list`
ReturnShorts ==
    /\ ppc = "each"
    /\ (epos > Len(shorts_elements) \/ Len(shorts_list) >= max_shorts)
    /\ ppc' = "returned"
    /\ UNCHANGED <<rendered, shorts_elements, epos, shorts_list,
                   collected_ids>>
    /\ UNCHANGED <<runvars, scrollvars, enrichvars, later>>

ParseNext ==
    \/ SelectElements
    \/ ExtractElement
    \/ ReturnShorts

ParseSpec == ParseInit /\ [][ParseNext]_vars

\* ------------------------------------------------------------ enrichment
\* One call of enrich_video_metadata or enrich_shorts_metadata.  A value is
\* None, the empty string or a non-empty string; the value an extractor
\* finds is named after its origin ("T" title, "D" description, "P" the
\* item's detail page, "stale" the document the page held before).
Truthy(v) == v # None /\ v # ""

\* Python `a or b`
OrLeft(a, b) == a

Or(a, b) == IF Truthy(a) THEN a ELSE b

DateSentinel == "Date Not Available"
PlaceSentinel == "Location Not Specified"
TopicSentinel == "General Documentation"
DescriptionSentinel == "Not Applicable"

Titles ==
    [date : {None, "T-date"}, place : {None, "T-place"},
     topic : {None, "T-topic"}]

DescriptionSignals ==
    [date : {None, "D-date"}, place : {None, "D-place"},
     topic : {None, "D-topic"}]

\* scrape_video_description returns None or a description of 16 characters
\* or more; the shorts code starts from description = ""
Descriptions(kind) ==
    IF kind = "shorts" THEN {"", "description"} ELSE {None, "description"}

\* what extract_date_from_page_metadata / extract_shorts_date_from_page can
\* find in the document the page holds
PageDates(doc) ==
    IF doc = "item" THEN {None, "P-date"}
    ELSE IF doc = "other" THEN {None, "stale date"}
    ELSE {None}

\* the document the page holds after page.goto raised: the one it held, an
\* error page, or the part of the detail page that had arrived
AfterFailedGoto(doc) == {doc, "error", "item"}

\* the locals after the first n of the three extractor calls on `text`
\* returned: date, place, topic in that order
AssignedFrom(l, sig, n, prefix) ==
    IF prefix = "title"
       THEN [l EXCEPT !.title_date = IF n >= 1 THEN sig.date ELSE @,
                      !.title_place = IF n >= 2 THEN sig.place ELSE @,
                      !.title_topic = IF n >= 3 THEN sig.topic ELSE @]
       ELSE [l EXCEPT !.desc_date = IF n >= 1 THEN sig.date ELSE @,
                      !.desc_place = IF n >= 2 THEN sig.place ELSE @,
                      !.desc_topic = IF n >= 3 THEN sig.topic ELSE @]

Found(sig, n) ==
    (IF n >= 1 /\ Truthy(sig.date) THEN {"date"} ELSE {})
    \cup (IF n >= 2 /\ Truthy(sig.place) THEN {"place"} ELSE {})
    \cup (IF n >= 3 /\ Truthy(sig.topic) THEN {"topic"} ELSE {})

\* `page_date or desc_date or title_date or "Date Not Available"`
ResolveDateTitleFirst(page_date, desc_date, title_date) ==
    Or(title_date, Or(desc_date, Or(page_date, DateSentinel)))

ResolveDate(page_date, desc_date, title_date) ==
    Or(page_date, Or(desc_date, Or(title_date, DateSentinel)))

\* `desc_place or title_place or "Location Not Specified"`
ResolvePlace(desc_place, title_place) ==
    Or(desc_place, Or(title_place, PlaceSentinel))

\* `desc_topic or title_topic or "General Documentation"`
ResolveTopic(desc_topic, title_topic) ==
    Or(desc_topic, Or(title_topic, TopicSentinel))

\* `if not description or description == "Not Applicable":` of
\* enrich_video_metadata; enrich_shorts_metadata has no such step
Synthesizes(kind, description) ==
    kind = "video" /\ (~Truthy(description) \/ description = DescriptionSentinel)

\* fallback enrichment of the shorts code: title only
TitleOnly(sig) ==
    [date |-> Or(sig.date, DateSentinel),
     place |-> Or(sig.place, PlaceSentinel),
     topic |-> Or(sig.topic, TopicSentinel),
     description |-> DescriptionSentinel]

\* `description = ...` followed by
\* `metadata['extracted_metadata']['description'] = description or "Not Applicable"`
SetDescription(d) ==
    /\ loc' = [loc EXCEPT !.description = d]
    /\ extracted_metadata' =
          [extracted_metadata EXCEPT !.description = Or(d, DescriptionSentinel)]

EnrichInit ==
    /\ RunIdle
    /\ ScrollOff
    /\ ParseOff
    /\ LaterOff
    /\ ekind \in {"video", "shorts"}
    /\ epc = IF ekind = "video" THEN "title" ELSE "nav"
    /\ page = "other"
    /\ title \in Titles
    /\ loc = NoLocals
    /\ extracted_metadata = RawExtracted(ekind)
    /\ via = "none"
    /\ nav_failed = FALSE
    /\ trouble = FALSE
    /\ got = {}

\* the three extractor calls on the title: lines 1095-1097 of
\* enrich_video_metadata, lines 1035-1041 of enrich_shorts_metadata
TitleAnalysis ==
    /\ epc = "title"
    /\ \E o \in Outcomes :
          IF o = "ok"
             THEN /\ loc' = AssignedFrom(loc, title, 3, "title")
                  /\ got' = got \cup Found(title, 3)
                  /\ epc' = IF ekind = "video" THEN "nav" ELSE "desc_analysis"
                  /\ UNCHANGED trouble
          ELSE IF o = "exc"
             THEN \E n \in 0..2 :
                    /\ got' = got \cup Found(title, n)
                    /\ trouble' = TRUE
                    /\ IF ekind = "video"
                          THEN /\ loc' = AssignedFrom(loc, title, n, "title")
                               /\ epc' = "handler"
                          ELSE /\ loc' = [loc EXCEPT !.title_date = None,
                                                     !.title_place = None,
                                                     !.title_topic = None]
                               /\ epc' = "desc_analysis"
          ELSE /\ epc' = "raised"
               /\ UNCHANGED <<loc, got, trouble>>
    /\ UNCHANGED <<ekind, page, title, extracted_metadata, via, nav_failed>>
    /\ UNCHANGED <<runvars, scrollvars, parsevars, later>>

\* page.goto of the detail page: lines 483-487 (called from line 1102) and
\* lines 979-985
DetailNavigate ==
    /\ epc = "nav"
    /\ \E o \in Outcomes :
          IF o = "ok"
             THEN /\ page' = "item"
                  /\ epc' = IF ekind = "video" THEN "wait" ELSE "content"
                  /\ UNCHANGED <<loc, extracted_metadata, nav_failed>>
          ELSE IF o = "exc"
             THEN /\ page' \in AfterFailedGoto(page)
                  /\ nav_failed' = TRUE
                  /\ IF ekind = "video"
                        THEN SetDescription(None) /\ epc' = "desc_analysis"
                        ELSE /\ epc' = "nav_fallback"
                             /\ UNCHANGED <<loc, extracted_metadata>>
          ELSE /\ epc' = "raised"
               /\ UNCHANGED <<page, loc, extracted_metadata, nav_failed>>
    /\ UNCHANGED <<ekind, title, via, trouble, got>>
    /\ UNCHANGED <<runvars, scrollvars, parsevars, later>>

\* scrape_video_description: wait_for_selector in `try: ... except: return None`
WaitSelector ==
    /\ epc = "wait"
    /\ \E o \in Outcomes :
          IF o = "ok"
             THEN epc' = "expand" /\ UNCHANGED <<loc, extracted_metadata>>
             ELSE SetDescription(None) /\ epc' = "desc_analysis"
    /\ UNCHANGED <<ekind, page, title, via, nav_failed, trouble, got>>
    /\ UNCHANGED <<runvars, scrollvars, parsevars, later>>

\* scrape_video_description: the "Show more" click in `try: ... except: pass`
ExpandDescription ==
    /\ epc = "expand"
    /\ \E o \in Outcomes : epc' = "content"
    /\ UNCHANGED <<ekind, page, title, loc, extracted_metadata, via,
                   nav_failed, trouble, got>>
    /\ UNCHANGED <<runvars, scrollvars, parsevars, later>>

\* page.content() and the description extraction: lines 507-611 and 1109,
\* lines 999-1025
ReadDescription ==
    /\ epc = "content"
    /\ \E o \in Outcomes :
          IF o = "ok"
             THEN /\ \E d \in Descriptions(ekind) : SetDescription(d)
                  /\ epc' = IF ekind = "video" THEN "desc_analysis"
                            ELSE "pagedate"
          ELSE IF o = "exc"
             THEN /\ SetDescription(IF ekind = "video" THEN None ELSE "")
                  /\ epc' = IF ekind = "video" THEN "desc_analysis"
                            ELSE "pagedate"
          ELSE epc' = "raised" /\ UNCHANGED <<loc, extracted_metadata>>
    /\ UNCHANGED <<ekind, page, title, via, nav_failed, trouble, got>>
    /\ UNCHANGED <<runvars, scrollvars, parsevars, later>>

\* `if description:` and the three extractor calls on the description:
\* lines 1116-1122, lines 1047-1053
DescriptionAnalysis ==
    /\ epc = "desc_analysis"
    /\ IF ~Truthy(loc.description)
          THEN /\ epc' = IF ekind = "video" THEN "pagedate" ELSE "combine"
               /\ UNCHANGED <<loc, got, trouble>>
          ELSE \E o \in Outcomes, sig \in DescriptionSignals :
                 IF o = "ok"
                    THEN /\ loc' = AssignedFrom(loc, sig, 3, "desc")
                         /\ got' = got \cup Found(sig, 3)
                         /\ epc' = IF ekind = "video" THEN "pagedate"
                                   ELSE "combine"
                         /\ UNCHANGED trouble
                 ELSE IF o = "exc"
                    THEN \E n \in 0..2 :
                           /\ loc' = AssignedFrom(loc, sig, n, "desc")
                           /\ got' = got \cup Found(sig, n)
                           /\ trouble' = TRUE
                           /\ epc' = IF ekind = "video" THEN "pagedate"
                                     ELSE "combine"
                 ELSE /\ epc' = "raised"
                      /\ UNCHANGED <<loc, got, trouble>>
    /\ UNCHANGED <<ekind, page, title, extracted_metadata, via, nav_failed>>
    /\ UNCHANGED <<runvars, scrollvars, parsevars, later>>

\* extract_date_from_page_metadata(page), lines 1125-1129;
\* extract_shorts_date_from_page(page), lines 1028-1032
ReadPageDate ==
    /\ epc = "pagedate"
    /\ \E o \in Outcomes :
          IF o = "ok"
             THEN \E d \in PageDates(page) :
                    /\ loc' = [loc EXCEPT !.page_date = d]
                    /\ got' = IF Truthy(d) THEN got \cup {"date"} ELSE got
                    /\ epc' = IF ekind = "video" THEN "combine" ELSE "title"
          ELSE IF o = "exc"
             THEN /\ epc' = IF ekind = "video" THEN "combine" ELSE "title"
                  /\ UNCHANGED <<loc, got>>
          ELSE epc' = "raised" /\ UNCHANGED <<loc, got>>
    /\ UNCHANGED <<ekind, page, title, extracted_metadata, via, nav_failed,
                   trouble>>
    /\ UNCHANGED <<runvars, scrollvars, parsevars, later>>

\* "Combine: page metadata > description > title > defaults", lines
\* 1131-1140 and 1055-1058, and the return
Combine ==
    /\ epc = "combine"
    /\ LET date == ResolveDate(loc.page_date, loc.desc_date, loc.title_date)
           place == ResolvePlace(loc.desc_place, loc.title_place)
           topic == ResolveTopic(loc.desc_topic, loc.title_topic)
       IN extracted_metadata' =
             [date |-> date, place |-> place, topic |-> topic,
              description |->
                 IF Synthesizes(ekind, loc.description)
                    THEN topic \o " - " \o place
                    ELSE extracted_metadata.description]
    /\ via' = "combine"
    /\ epc' = "returned"
    /\ UNCHANGED <<ekind, page, title, loc, nav_failed, trouble, got>>
    /\ UNCHANGED <<runvars, scrollvars, parsevars, later>>

\* enrich_shorts_metadata, the handler of the failed navigation: lines 984-996
NavFallback ==
    /\ epc = "nav_fallback"
    /\ \E o \in Outcomes :
          IF o = "ok"
             THEN /\ loc' = AssignedFrom(loc, title, 3, "title")
                  /\ got' = got \cup Found(title, 3)
                  /\ extracted_metadata' = TitleOnly(title)
                  /\ via' = "nav_fallback"
                  /\ epc' = "returned"
                  /\ UNCHANGED trouble
          ELSE IF o = "exc"
             THEN \E n \in 0..2 :
                    /\ loc' = AssignedFrom(loc, title, n, "title")
                    /\ got' = got \cup Found(title, n)
                    /\ trouble' = TRUE
                    /\ epc' = "handler"
                    /\ UNCHANGED <<extracted_metadata, via>>
          ELSE /\ epc' = "raised"
               /\ UNCHANGED <<loc, got, extracted_metadata, via, trouble>>
    /\ UNCHANGED <<ekind, page, title, nav_failed>>
    /\ UNCHANGED <<runvars, scrollvars, parsevars, later>>

\* the whole-item `except Exception` handler: lines 1146-1153 (its call of
\* extract_topic_from_text is unguarded) and lines 1064-1084 (its extractor
\* calls are guarded, the guard writes the three sentinels)
ItemFallback ==
    /\ epc = "handler"
    /\ \E o \in Outcomes :
          IF ekind = "video"
             THEN /\ extracted_metadata' =
                        [description |-> "Video: <title>",
                         date |-> DateSentinel,
                         place |-> PlaceSentinel,
                         topic |-> IF o = "ok"
                                      THEN Or(title.topic, TopicSentinel)
                                      ELSE extracted_metadata.topic]
                  /\ epc' = IF o = "ok" THEN "returned"
                            ELSE IF o = "exc" THEN "raised_exc" ELSE "raised"
             ELSE /\ extracted_metadata' =
                        IF o = "ok" THEN TitleOnly(title)
                        ELSE IF o = "exc"
                           THEN TitleOnly([date |-> None, place |-> None,
                                           topic |-> None])
                        ELSE [extracted_metadata EXCEPT
                                 !.description = DescriptionSentinel]
                  /\ epc' = IF o = "ki" THEN "raised" ELSE "returned"
    /\ via' = "item_fallback"
    /\ trouble' = TRUE
    /\ UNCHANGED <<ekind, page, title, loc, nav_failed, got>>
    /\ UNCHANGED <<runvars, scrollvars, parsevars, later>>

EnrichNext ==
    \/ TitleAnalysis
    \/ DetailNavigate
    \/ WaitSelector
    \/ ExpandDescription
    \/ ReadDescription
    \/ DescriptionAnalysis
    \/ ReadPageDate
    \/ Combine
    \/ NavFallback
    \/ ItemFallback

EnrichSpec == EnrichInit /\ [][EnrichNext]_vars

\* ------------------------------------------ the three text extractors
\* A text is a sequence of fragments, each ending its sentence; the text the
\* extractor receives is their concatenation.  No pattern of the extractors
\* matches across two of these fragments, so re.search on the text finds the
\* match of the first fragment that has one, and re.finditer the matches of
\* the fragments in order.
MaxFragments == 2
MaxCalls == 3

\* "in A" followed by 99 lower-case letters: a capitalised word of length 100
LongName ==
    "Aaaaaaaaaaaaaaaaaaaaaaaaaaaaaaaaaaaaaaaaaaaaaaaaaaaaaaaaaaaaaaaaaaaaaaaaaaaaaaaaaaaaaaaaaaaaaaaaaaaa"

Fragments ==
    {" ", "12 Mar 2021.", "31 feb 2021.", "2021-03-12.", "2021-13-45.",
     "3/4/2021.", "hebron.", "Jordan Valley.", "Area C.", "in Haifa.",
     "in Video.", "at Al.", "in " \o LongName \o ".", "Beit Region.",
     "settler protest.", "about olives.", "about it."}

Texts == UNION { [1..n -> Fragments] : n \in 0..MaxFragments }

\* `if not text: return None`
IsEmpty(t) == t = <<>>

Least(S) == CHOOSE i \in S : \A j \in S : i <= j

\* re.search(pattern, text): group 1 of the leftmost match, groups[k] being
\* group 1 of the match inside the k-th fragment
re_search(groups) ==
    LET hits == { k \in 1..Len(groups) : groups[k] # None }
    IN  IF hits = {} THEN None ELSE groups[Least(hits)]

\* the list `patterns` of extract_date_from_text, by what each accepts:
\*   "dmy"    \d{1,2}\s+(?:Jan|...|Dec)[a-z]*\s+\d{4}   (re.IGNORECASE)
\*   "iso"    \d{4}-\d{2}-\d{2}
\*   "slash"  \d{1,2}/\d{1,2}/\d{4}
patterns == <<"dmy", "iso", "slash">>

DateGroup(pattern, f) ==
    CASE pattern = "dmy" /\ f = "12 Mar 2021." -> "12 Mar 2021"
      [] pattern = "dmy" /\ f = "31 feb 2021." -> "31 feb 2021"
      [] pattern = "iso" /\ f = "2021-03-12." -> "2021-03-12"
      [] pattern = "iso" /\ f = "2021-13-45." -> "2021-13-45"
      [] pattern = "slash" /\ f = "3/4/2021." -> "3/4/2021"
      [] OTHER -> None

DateGroups(pattern, t) == [k \in 1..Len(t) |-> DateGroup(pattern, t[k])]

\* the match that starts first in the text, whichever pattern gives it
extract_date_leftmost(t) ==
    LET hits == { k \in 1..Len(t) :
                     \E i \in 1..Len(patterns) : DateGroup(patterns[i], t[k]) # None }
    IN  IF hits = {} THEN None
        ELSE LET f == t[Least(hits)]
                 ps == { i \in 1..Len(patterns) : DateGroup(patterns[i], f) # None }
             IN  DateGroup(patterns[Least(ps)], f)

\* for pattern in patterns: match = re.search(...); if match: return group 1
extract_date_from_text(t) ==
    IF IsEmpty(t) THEN None
    ELSE LET found == { i \in 1..Len(patterns) :
                           re_search(DateGroups(patterns[i], t)) # None }
         IN  IF found = {} THEN None
             ELSE re_search(DateGroups(patterns[Least(found)], t))

\* the labels of the dict specific_locations that some fragment of the model
\* can match, in the order of the dict (Hebron 4th, Jordan Valley 13th,
\* Area A/C 14th, Area B/C 15th, Jordan 18th)
specific_locations ==
    <<"Hebron", "Jordan Valley", "Area A/C", "Area B/C", "Jordan">>

\* re.search(pattern, text, re.IGNORECASE) of the entry with that label
NamedMatch(location_name, f) ==
    \/ location_name = "Hebron" /\ f = "hebron."
    \/ location_name \in {"Jordan Valley", "Jordan"} /\ f = "Jordan Valley."
    \/ location_name \in {"Area A/C", "Area B/C"} /\ f = "Area C."

\* the orders in which .items() may visit the entries of a dict
ItemsOrderArbitrary(d) ==
    { s \in [1..Len(d) -> { d[i] : i \in 1..Len(d) }] :
         \A i, j \in 1..Len(d) : i # j => s[i] # s[j] }

\* dict keeps insertion order
ItemsOrder(d) == { d }

\* the four location_patterns (case-sensitive), by position; group 1 of the
\* matches re.finditer yields inside fragment f, stripped
LocationGroups(pattern, f) ==
    CASE pattern = 3 /\ f = "in Haifa." -> <<"Haifa">>
      [] pattern = 3 /\ f = "in Video." -> <<"Video">>
      [] pattern = 3 /\ f = "at Al." -> <<"Al">>
      [] pattern = 3 /\ f = "in " \o LongName \o "." -> <<LongName>>
      [] pattern = 4 /\ f = "Jordan Valley." -> <<"Jordan">>
      [] pattern = 4 /\ f = "Beit Region." -> <<"Beit">>
      [] OTHER -> <<>>

NumLocationPatterns == 4

\* str.lower() of the strings the location patterns capture in the model
Lower(location) ==
    CASE location = "Haifa" -> "haifa"
      [] location = "Video" -> "video"
      [] location = "Al" -> "al"
      [] location = "Jordan" -> "jordan"
      [] location = "Beit" -> "beit"
      [] OTHER -> location

non_locations ==
    {"said", "according", "report", "video", "interview", "footage", "shows",
     "reveals", "documentary", "depicts", "describes", "documents"}

AcceptedAny(location) == TRUE

\* `if len(location) > 2 and len(location) < 100` and the stoplist test
Accepted(location) ==
    /\ Len(location) > 2
    /\ Len(location) < 100
    /\ Lower(location) \notin non_locations

\* for pattern in location_patterns: for match in re.finditer(pattern, text)
RECURSIVE MatchesFrom(_, _, _)
MatchesFrom(pattern, k, t) ==
    IF pattern > NumLocationPatterns THEN <<>>
    ELSE IF k > Len(t) THEN MatchesFrom(pattern + 1, 1, t)
    ELSE LocationGroups(pattern, t[k]) \o MatchesFrom(pattern, k + 1, t)

RECURSIVE FirstAccepted(_)
FirstAccepted(ms) ==
    IF ms = <<>> THEN None
    ELSE IF Accepted(Head(ms)) THEN Head(ms)
    ELSE FirstAccepted(Tail(ms))

extract_location_from_text(t, items) ==
    IF IsEmpty(t) THEN None
    ELSE LET named == { i \in 1..Len(items) :
                           \E k \in 1..Len(t) : NamedMatch(items[i], t[k]) }
         IN  IF named # {} THEN items[Least(named)]
             ELSE FirstAccepted(MatchesFrom(1, 1, t))

\* the labels of the dict topic_keywords that some fragment of the model can
\* match, in the order of the dict (1st and 5th entry)
topic_keywords == <<"Settlement Expansion", "Protest/Demonstration">>

\* re.search(pattern, text_lower) of the entry with that label
KeywordMatch(topic, f) == f = "settler protest."

\* the three topic_patterns (re.IGNORECASE), by position; group 1 of the
\* leftmost match inside fragment f, stripped.  The second pattern is
\* anchored at the start of the text.
TopicGroup(pattern, f) ==
    CASE pattern = 1 /\ f = "about olives." -> "olives"
      [] pattern = 1 /\ f = "about it." -> "it"
      [] pattern = 2 /\ f = "in Video." -> "in"
      [] OTHER -> None

NumTopicPatterns == 3

Anchored(pattern, t) == IF pattern = 2 THEN SubSeq(t, 1, 1) ELSE t

\* `if len(topic) > 3 and len(topic) < 150: return topic`; a pattern whose
\* leftmost match is refused is left for the next pattern
RECURSIVE TopicFallback(_, _)
TopicFallback(pattern, t) ==
    IF pattern > NumTopicPatterns THEN None
    ELSE LET text0 == Anchored(pattern, t)
             topic == re_search([k \in 1..Len(text0) |->
                                    TopicGroup(pattern, text0[k])])
         IN  IF topic # None /\ Len(topic) > 3 /\ Len(topic) < 150
                THEN topic
                ELSE TopicFallback(pattern + 1, t)

extract_topic_from_text(t, items) ==
    IF IsEmpty(t) THEN None
    ELSE LET matched_topics == { i \in 1..Len(items) :
                                    \E k \in 1..Len(t) : KeywordMatch(items[i], t[k]) }
         IN  IF matched_topics # {} THEN items[Least(matched_topics)]
             ELSE TopicFallback(1, t)

Call(fn, out) == [fn |-> fn, out |-> out]

TextInit ==
    /\ RunIdle
    /\ ScrollOff
    /\ ParseOff
    /\ EnrichOff
    /\ StoreOff
    /\ text \in Texts
    /\ calls = <<>>

CallDate ==
    /\ Len(calls) < MaxCalls
    /\ calls' = Append(calls, Call("date", extract_date_from_text(text)))
    /\ UNCHANGED <<runvars, scrollvars, parsevars, enrichvars, storevars, text>>

CallLocation ==
    /\ Len(calls) < MaxCalls
    /\ \E items \in ItemsOrder(specific_locations) :
          calls' = Append(calls,
                      Call("location", extract_location_from_text(text, items)))
    /\ UNCHANGED <<runvars, scrollvars, parsevars, enrichvars, storevars, text>>

CallTopic ==
    /\ Len(calls) < MaxCalls
    /\ \E items \in ItemsOrder(topic_keywords) :
          calls' = Append(calls,
                      Call("topic", extract_topic_from_text(text, items)))
    /\ UNCHANGED <<runvars, scrollvars, parsevars, enrichvars, storevars, text>>

TextNext ==
    \/ CallDate
    \/ CallLocation
    \/ CallTopic

TextSpec == TextInit /\ [][TextNext]_vars

\* ------------------------------------------------- save_video_metadata
MaxSaves == 2

Rep(c, n) == [i \in 1..n |-> c]

\* titles, as sequences of characters, the way clean_text leaves them: runs
\* of whitespace collapsed to one blank, ends stripped; extract_video_metadata
\* refuses an empty title, extract_shorts_metadata tests the title before
\* clean_text and lets a title of blanks through as ""
TitleTexts(kind) ==
    {<<"?">>, <<"a">>, <<"a", " ", "?", " ", "b">>, Rep("a", 101)}
       \cup (IF kind = "shorts" THEN {<<>>} ELSE {})

Illegal == {"<", ">", ":", "\"", "/", "\\", "|", "?", "*"}

Whitespace == {" "}

\* re.sub(r'[<>:"/\\|?*]', '', name)
StripIllegal(name) == SelectSeq(name, LAMBDA c : c \notin Illegal)

\* re.sub(r'\s+', '_', name): the first character of a run of whitespace
\* becomes the separator, the others go
CollapseWhitespace(name) ==
    LET marked == [i \in 1..Len(name) |->
                      IF name[i] \notin Whitespace THEN name[i]
                      ELSE IF i > 1 /\ name[i - 1] \in Whitespace THEN "drop"
                      ELSE "_"]
    IN  SelectSeq(marked, LAMBDA c : c # "drop")

\* .strip('_')
Strip(name) ==
    LET inner == { i \in 1..Len(name) : name[i] # "_" }
    IN  IF inner = {} THEN <<>>
        ELSE SubSeq(name, Least(inner),
                    CHOOSE i \in inner : \A j \in inner : j <= i)

\* name[:n]
Cut(name, n) == SubSeq(name, 1, IF Len(name) < n THEN Len(name) ELSE n)

SlugLimit == 100

sanitize_filename(name) ==
    Cut(Strip(CollapseWhitespace(StripIllegal(name))), SlugLimit)

\* `filename = sanitize_filename(title)`, `if len(filename) > 100: ...`
FileName(video_id, name) ==
    LET filename == sanitize_filename(name)
    IN  IF Len(filename) > SlugLimit THEN Cut(filename, SlugLimit) ELSE filename

Sections ==
    {"video_identification", "basic_info", "extracted_metadata", "metadata"}

\* the keys of metadata['extracted_metadata'] the harvester builds
ExtractedKeys(kind) ==
    IF kind = "shorts"
       THEN {"date", "place", "topic", "description", "channel"}
       ELSE {"title", "date", "place", "topic", "description", "channel"}

\* enrichment assigns date, place, topic and description and no other key
EnrichedKeys(keys) == keys \cup {"date", "place", "topic", "description"}

\* the JSON document written for an item
Document(kind, name) ==
    [complete |-> TRUE, title |-> name, sections |-> Sections,
     extracted |-> EnrichedKeys(ExtractedKeys(kind)),
     description |-> IF kind = "shorts" THEN "Not Applicable"
                     ELSE "A description"]

\* a file write_text truncated and did not finish
Truncated == [complete |-> FALSE, title |-> <<>>, sections |-> {},
              extracted |-> {}, description |-> ""]

File(folder, video_id, filename, doc) ==
    [folder |-> folder, video_id |-> video_id, name |-> filename, doc |-> doc]

\* video_dir.glob("*.json")
Dir(fs, folder, video_id) ==
    { f \in fs : f.folder = folder /\ f.video_id = video_id }

\* metadata_file.write_text(...): the disks it can leave
WriteText(fs, folder, video_id, filename, doc, o) ==
    LET rest == { f \in fs : ~(/\ f.folder = folder
                               /\ f.video_id = video_id
                               /\ f.name = filename) }
    IN  IF o = "ok" THEN { rest \cup {File(folder, video_id, filename, doc)} }
        ELSE { fs, rest \cup {File(folder, video_id, filename, Truncated)} }

SaveInit ==
    /\ RunIdle
    /\ ScrollOff
    /\ ParseOff
    /\ EnrichOff
    /\ TextOff
    /\ StoreOff

\* save_video_metadata(video_id, metadata); the bare `except: pass` around
\* old_file.unlink() leaves the files that could not be removed
SaveVideoMetadata ==
    /\ saves < MaxSaves
    /\ saves' = saves + 1
    /\ \E video_id \in Ids, kind \in {"video", "shorts"}, o \in {"ok", "exc"} :
       \E name \in TitleTexts(kind) :
          LET filename == FileName(video_id, name)
              folder == type_folder(kind)
              old == { f \in Dir(disk, folder, video_id) : f.name # filename }
          IN  \E stuck \in SUBSET old :
                 /\ disk' \in WriteText(disk \ (old \ stuck), folder, video_id,
                                       filename, Document(kind, name), o)
                 /\ saved' = [outcome |-> o, video_id |-> video_id,
                              folder |-> folder, title |-> name,
                              name |-> filename]
    /\ UNCHANGED <<runvars, scrollvars, parsevars, enrichvars, textvars,
                   index_document, response>>

SaveNext == SaveVideoMetadata

SaveSpec == SaveInit /\ [][SaveNext]_vars

\* ------------------------------------------- youtube_api.py, the query API
MaxLimit == 2

\* an id no run ever saw
UnknownId == 0

IndexOf(entries) == [state |-> "parsed", entries |-> entries]

\* VIDEOS_INDEX.json after a write_text that raised midway
Unparsable == [state |-> "unparsable", entries |-> <<>>]

\* the items of the site in the API model: odd ids are videos titled "a",
\* even ids are shorts titled "?"
ItemKind(video_id) == IF video_id % 2 = 1 THEN "video" ELSE "shorts"

ItemTitle(video_id) == IF video_id % 2 = 1 THEN <<"a">> ELSE <<"?">>

\* the topic enrichment resolved for a title
TopicOf(name) ==
    IF name = <<"a">> THEN "Separation Wall/Barrier" ELSE TopicSentinel

\* videos_index[video_id] = {...}: an entry of the index
Entry(video_id, name, place) ==
    [video_id |-> video_id, title |-> name, place |-> place,
     topic |-> TopicOf(name)]

EntryIds(entries) == { entries[i].video_id : i \in 1..Len(entries) }

\* scraper, load_videos_index: a missing or unreadable document is {}
ScraperLoad(doc) == IF doc.state = "parsed" THEN doc.entries ELSE <<>>

\* json.load(f) without the try/except around it
load_videos_index_raising(doc) ==
    [raised |-> doc.state = "unparsable",
     entries |-> IF doc.state = "parsed" THEN doc.entries ELSE <<>>]

\* API, load_videos_index: {} when the file is missing or json.load raises
load_videos_index(doc) ==
    [raised |-> FALSE,
     entries |-> IF doc.state = "parsed" THEN doc.entries ELSE <<>>]

\* the directory save_video_metadata writes the file of an id into
ScraperDir(f) == <<f.folder, ToString(f.video_id)>>

\* video_dir = OUTPUT_ROOT_DIR / video_id
ApiDir(video_id) == <<ToString(video_id)>>

\* load_video_metadata: the JSON files of video_dir; None when there is none
\* or when the first one cannot be parsed
load_video_metadata(fs, video_id) ==
    { f \in fs : ScraperDir(f) = ApiDir(video_id) /\ f.doc.complete }

\* format_video_for_api
format_video_for_api(fs, e) ==
    LET full_metadata == load_video_metadata(fs, e.video_id)
    IN  [id |-> e.video_id,
         title |-> e.title,
         place |-> Or(e.place, "Not Applicable"),
         topic |-> Or(e.topic, "Not Applicable"),
         description |->
             IF full_metadata # {}
                THEN (CHOOSE f \in full_metadata : TRUE).doc.description
                ELSE "Not Applicable"]

\* `needle in hay.lower()` for the query words and the strings of the model
LowerContains(needle, hay) ==
    <<needle, hay>> \in {<<"hebron", "Hebron">>,
                         <<"wall", "Separation Wall/Barrier">>}

\* `search_query in v['title'].lower()` for a query of one character
TitleContains(needle, name) == \E i \in 1..Len(name) : name[i] = needle

RECURSIVE Formatted(_, _)
Formatted(fs, entries) ==
    IF entries = <<>> THEN <<>>
    ELSE <<format_video_for_api(fs, Head(entries))>>
            \o Formatted(fs, Tail(entries))

\* the last `limit` elements
LimitTail(videos, limit) ==
    SubSeq(videos, Len(videos) - (IF limit < Len(videos) THEN limit ELSE Len(videos)) + 1,
           Len(videos))

\* filtered_videos[:limit], limit >= 0
Limit(videos, limit) ==
    SubSeq(videos, 1, IF limit < Len(videos) THEN limit ELSE Len(videos))

Response(route, request, status, success, error, count, total, videos, video) ==
    [outcome |-> "sent", route |-> route, request |-> request,
     status |-> status, success |-> success, error |-> error,
     count |-> count, total |-> total, videos |-> videos, video |-> video]

Request(video_id, search, place, topic, limit) ==
    [video_id |-> video_id, search |-> search, place |-> place,
     topic |-> topic, limit |-> limit]

\* `except Exception as e: return jsonify({success: False, error: str(e)}), 500`
ServerError(route, request) ==
    Response(route, request, 500, FALSE, "json error", 0, 0, <<>>, <<>>)

ApiInit ==
    /\ RunIdle
    /\ ScrollOff
    /\ ParseOff
    /\ EnrichOff
    /\ TextOff
    /\ StoreOff

\* a run of run_scraper in which every call returns and whose sources list
\* one item the index does not know: the detail file is saved, the entry
\* added and the index document written
CompletedRun ==
    /\ \E video_id \in Ids, place \in {"Hebron", None} :
          LET videos_index0 == ScraperLoad(index_document)
              kind == ItemKind(video_id)
              name == ItemTitle(video_id)
              filename == FileName(video_id, name)
              folder == type_folder(kind)
              old == { f \in Dir(disk, folder, video_id) : f.name # filename }
          IN  /\ video_id \notin EntryIds(videos_index0)
              /\ disk' \in WriteText(disk \ old, folder, video_id, filename,
                                    Document(kind, name), "ok")
              /\ saved' = [outcome |-> "ok", video_id |-> video_id,
                           folder |-> folder, title |-> name,
                           name |-> filename]
              /\ index_document' =
                    IndexOf(Append(videos_index0, Entry(video_id, name, place)))
    /\ saves' = saves
    /\ response' = NoCall
    /\ UNCHANGED <<runvars, scrollvars, parsevars, enrichvars, textvars>>

\* a run that saved nothing new and whose save_videos_index raised after
\* write_text had truncated the document
FailedPersist ==
    /\ index_document.state = "parsed"
    /\ index_document' = Unparsable
    /\ response' = NoCall
    /\ UNCHANGED <<runvars, scrollvars, parsevars, enrichvars, textvars,
                   disk, saved, saves>>

\* GET /api/videos/<video_id>
GetVideo ==
    /\ \E video_id \in Ids \cup {UnknownId} :
          LET request == Request(video_id, "", "", "", 0)
              loaded == load_videos_index(index_document)
              full_metadata == load_video_metadata(disk, video_id)
          IN  response' =
                 IF loaded.raised THEN ServerError("get_video", request)
                 ELSE IF video_id \notin EntryIds(loaded.entries)
                    THEN Response("get_video", request, 404, FALSE,
                                  "Video with ID " \o ToString(video_id)
                                     \o " not found", 0, 0, <<>>, <<>>)
                 ELSE IF full_metadata = {}
                    THEN Response("get_video", request, 404, FALSE,
                                  "Metadata for video " \o ToString(video_id)
                                     \o " not found", 0, 0, <<>>, <<>>)
                 ELSE Response("get_video", request, 200, TRUE, "", 0, 0, <<>>,
                               <<(CHOOSE f \in full_metadata : TRUE).doc>>)
    /\ UNCHANGED <<runvars, scrollvars, parsevars, enrichvars, textvars,
                   disk, saved, saves, index_document>>

\* GET /api/videos?search=..&place=..&topic=..&limit=..
GetVideos ==
    /\ \E search_query \in {"", "?"}, place_filter \in {"", "hebron"},
          topic_filter \in {"", "wall"}, limit \in 0..MaxLimit :
          LET request == Request(UnknownId, search_query, place_filter,
                                 topic_filter, limit)
              loaded == load_videos_index(index_document)
              formatted_videos == Formatted(disk, loaded.entries)
              by_search ==
                  IF search_query = "" THEN formatted_videos
                  ELSE SelectSeq(formatted_videos,
                          LAMBDA v : \/ TitleContains(search_query, v.title)
                                     \/ LowerContains(search_query, v.description))
              by_place ==
                  IF place_filter = "" THEN by_search
                  ELSE SelectSeq(by_search,
                          LAMBDA v : LowerContains(place_filter, v.place))
              by_topic ==
                  IF topic_filter = "" THEN by_place
                  ELSE SelectSeq(by_place,
                          LAMBDA v : LowerContains(topic_filter, v.topic))
              filtered_videos == Limit(by_topic, limit)
          IN  response' =
                 IF loaded.raised THEN ServerError("get_videos", request)
                 ELSE Response("get_videos", request, 200, TRUE, "",
                               Len(filtered_videos), Len(formatted_videos),
                               filtered_videos, <<>>)
    /\ UNCHANGED <<runvars, scrollvars, parsevars, enrichvars, textvars,
                   disk, saved, saves, index_document>>

ApiNext ==
    \/ CompletedRun
    \/ FailedPersist
    \/ GetVideo
    \/ GetVideos

ApiSpec == ApiInit /\ [][ApiNext]_vars

\* ------------------------------------------------------------ properties
HarvestSteps == {"h_nav", "h_wait", "h_scroll", "h_parse"}
ItemSteps == {"e_nav", "e_wait", "e_expand", "e_content", "e_pagedate",
              "save", "upsert", "fallback"}
WriteSteps == {"save", "fallback"}
Running == pc \notin {"idle", "done", "aborted"}
StageOrder == <<"enrich", "save", "upsert", "fallback">>
Rank(kind) == IF kind = "shorts" THEN 1 ELSE IF kind = "video" THEN 2 ELSE 3

\* every id some source renders is in the index document
AllListedIndexed ==
    \A s \in 1..NumSources : \A i \in 1..Len(content[s]) :
        content[s][i] \in DOMAIN index_file

\* C1: after a run was aborted (interrupt or fatal error), no item the run
\* had saved and marked as known has a detail file on disk while being absent
\* from the persisted index.
C1_AbortLeavesDiskConsistent ==
    pc = "aborted" =>
        \A id \in existing_video_ids :
            HasFile(id) => id \in DOMAIN index_file

C3_IndexedHasFile ==
    /\ [](pc = "done" /\ orphans0 = {} =>
            \A id \in DOMAIN index_file :
                <<type_folder(index_file[id]), id>> \in files)
    /\ [][\A id \in Ids :
            (/\ id \in DOMAIN videos_index'
             /\ id \notin DOMAIN videos_index
             /\ last'.step # "start")
            => (/\ last = Step("save", "ok", id)
                /\ <<type_folder(videos_index'[id]), id>> \in files)]_vars

C3_Witness ==
    /\ pc = "done"
    /\ orphans0 = {}
    /\ \E id \in DOMAIN index_file : index_file[id] = "shorts"

\* C4: an item whose id is in the known-id set is skipped: no navigation, no
\* detail-file write, no change of the index, whether or not its detail file
\* exists; navigation and writes happen for unknown ids only.
C4_KnownIdSkipped ==
    [][/\ (pc = "item" /\ idx <= Len(listing) /\ Cur \in existing_video_ids)
            => last'.step = "skip"
       /\ last'.step = "skip"
            => (/\ last'.id \in existing_video_ids
                /\ pc' = "item"
                /\ UNCHANGED <<files, videos_index, index_file,
                               existing_video_ids>>)
       /\ last'.step \in {"e_nav", "save", "fallback"}
            => last'.id \notin existing_video_ids]_vars

C4_Witness ==
    /\ last.step = "skip"
    /\ ~HasFile(last.id)

\* C5: a KeyboardInterrupt raised at any step aborts the run.
C5_InterruptAlwaysPropagates ==
    last.outcome = "ki" => pc = "aborted"

\* C6: a failed save adds no index entry and does not mark the id as known,
\* the loop goes on with the next item of the same source, and the id is
\* unknown again when the next run starts.
C6_SaveFailure ==
    /\ [][(last'.step = "save" /\ last'.outcome = "exc")
            => (/\ UNCHANGED <<videos_index, existing_video_ids, index_file,
                               src, listing>>
                /\ last'.id \notin existing_video_ids'
                /\ last'.id \notin DOMAIN videos_index'
                /\ pc' = "item"
                /\ idx' = idx + 1)]_vars
    /\ [](unsaved \cap (existing_video_ids \cup DOMAIN videos_index
                        \cup DOMAIN index_file) = {})
    /\ [][last'.step = "start" => unsaved \cap existing_video_ids' = {}]_vars

C6_Witness ==
    /\ pc = "upsert"
    /\ idx > 1
    /\ listing[1] \in unsaved
    /\ listing[1] # Cur

\* C7 (as stated): after an index upsert that raised, the fallback always
\* leaves the id in the known-id set with its detail file on disk.
C7_FallbackAlwaysMarksSeen ==
    (last.step = "fallback" /\ last.outcome # "ki") =>
        (last.id \in existing_video_ids /\ HasFile(last.id))

\* C7 (amended): an upsert that raises leaves the index and the saved file
\* as they are and runs the fallback save; when the fallback save succeeds
\* the id is known and its detail file exists, when it raises the id stays
\* unknown; a known id stays known until the run ends, and every id known
\* without an index entry has a detail file.
C7_Fallback ==
    /\ [][(last'.step = "upsert" /\ last'.outcome = "exc")
            => (/\ pc' = "fallback"
                /\ DetailFile(src, Cur) \in files'
                /\ UNCHANGED <<videos_index, existing_video_ids, files,
                               idx>>)]_vars
    /\ []((last.step = "fallback" /\ last.outcome = "ok")
            => (/\ last.id \in existing_video_ids
                /\ DetailFile(src, last.id) \in files))
    /\ []((last.step = "fallback" /\ last.outcome = "exc")
            => last.id \notin existing_video_ids)
    /\ [][last'.step # "start"
            => existing_video_ids \subseteq existing_video_ids']_vars
    /\ [](\A id \in existing_video_ids \ DOMAIN videos_index : HasFile(id))

C7_Witness ==
    /\ last.step = "skip"
    /\ last.id \notin DOMAIN videos_index

\* C8: an exception caught while harvesting leaves the run going: the
\* harvester returns a prefix of the listing, the sources are visited one by
\* one in order up to the last, and the index is persisted when the run ends.
C8_BrokenSource ==
    /\ [][(last'.step \in HarvestSteps /\ last'.outcome = "exc")
            => (/\ src' = src
                /\ UNCHANGED <<videos_index, existing_video_ids, index_file,
                               files>>
                /\ IF SourceKind(src) = "shorts" /\ last'.step = "h_wait"
                      THEN pc' = "h_scroll"
                      ELSE /\ pc' = "item"
                           /\ idx' = 1
                           /\ listing' \in Prefixes(FullListing(src)))]_vars
    /\ [][src' # src
            => (last'.step = "start" \/ (src' = src + 1 /\ pc' = "h_nav"))]_vars
    /\ [](pc \in {"close", "persist", "done"} => src = NumSources)
    /\ [](pc = "done" => index_file = videos_index)

C8_Witness ==
    /\ run = 1
    /\ pc = "done"
    /\ broken
    /\ listedShort = {}
    /\ \E id \in DOMAIN index_file : id # 1

\* C9: every new item goes through enrichment, then save, then index upsert,
\* in that order; an exception in one item leaves the loop in the same source
\* at that item or the next; a source is left only after its last item.
C9_ItemPipeline ==
    /\ [](stages \in Prefixes(StageOrder))
    /\ [][(idx' = idx + 1 /\ last'.step \notin {"skip", "start"})
            => (Len(stages') >= 2 /\ stages' \in Prefixes(StageOrder))]_vars
    /\ [][(last'.step \in ItemSteps /\ last'.outcome = "exc")
            => (/\ pc' # "aborted"
                /\ src' = src
                /\ listing' = listing
                /\ (idx' = idx \/ (idx' = idx + 1 /\ pc' = "item")))]_vars
    /\ [][(pc = "item" /\ pc' \in {"h_nav", "close"})
            => idx > Len(listing)]_vars

C9_Witness ==
    /\ last.step = "upsert"
    /\ last.outcome = "ok"
    /\ idx > 2
    /\ listing[1] \notin existing_video_ids

\* C10 (as stated): the source kinds are processed in the order shorts,
\* video, search, and an id returned by a shorts harvester is saved by shorts
\* sources only.
C10_ListedShortSavedAsShort ==
    /\ [][(src' # src /\ last'.step # "start")
            => Rank(SourceKind(src)) <= Rank(SourceKind(src'))]_vars
    /\ []((last.step \in WriteSteps /\ last.outcome = "ok"
            /\ last.id \in listedShort)
            => SourceKind(src) = "shorts")

\* C10 (amended): the source kinds are processed in the order shorts, video,
\* search, starting with the first source; an item a shorts source finished
\* without exception is known and has its file under shorts/; a later source
\* saves an id that a shorts harvester returned only when the latest write of
\* that id raised.
C10_SourceOrder ==
    /\ [][(src' # src /\ last'.step # "start")
            => Rank(SourceKind(src)) <= Rank(SourceKind(src'))]_vars
    /\ [](last.step = "start" => (src = 1 /\ SourceKind(src) = "shorts"))
    /\ [][(last'.step \in {"upsert", "fallback"} /\ last'.outcome = "ok"
            /\ SourceKind(src) = "shorts")
            => (/\ last'.id \in existing_video_ids'
                /\ <<"shorts", last'.id>> \in files')]_vars
    /\ [][(last'.step = "save" /\ last'.outcome = "ok"
            /\ SourceKind(src) # "shorts" /\ last'.id \in listedShort)
            => last'.id \in unsaved]_vars

C10_Witness ==
    /\ last.step = "skip"
    /\ SourceKind(src) # "shorts"
    /\ last.id \in listedShort
    /\ last.id \in DOMAIN videos_index
    /\ videos_index[last.id] = "shorts"
    /\ last.id \notin DOMAIN index_file

\* C11: a run that no KeyboardInterrupt ended has persisted the index: when
\* it stops for another reason, the index document holds every entry loaded
\* at run start and every entry added during the run.
C11_PersistedUnlessInterrupted ==
    (pc = "aborted" /\ last.outcome # "ki") => index_file = videos_index

\* ---------------------------------------------------------- scroll loops
Ended == {"returned", "failed", "raised"}

\* C12: whatever heights the page reports, the channel-videos scroll loop
\* ends, it issues at most 100 scrolls, it goes on only while no measurement
\* equalled its predecessor, and it ends only at the first such measurement
\* or with 100 scrolls issued.
C12_ChannelScrollTerminates ==
    /\ (harvester = "video") ~> (spc \in Ended)
    /\ [](harvester = "video" => scrolls <= max_scrolls)
    /\ [](harvester = "video" /\ spc \in {"loop", "measure"} => flat = 0)
    /\ [][(harvester = "video" /\ spc = "measure" /\ flat' = 1)
            => spc' = "fetch"]_vars
    /\ [](harvester = "video" /\ spc = "fetch"
            => (flat = 1 \/ (flat = 0 /\ scrolls = max_scrolls)))

C12_Witness ==
    /\ harvester = "video"
    /\ spc = "returned"
    /\ scrolls = max_scrolls
    /\ flat = 0

\* C13: once a measured height equalled the previous measurement the
\* channel-videos harvester issues no further scroll and no further height
\* measurement; the page content is fetched only after the loop has ended,
\* at most once, and exactly once when the harvester returns its full list.
C13_ChannelFetchOnce ==
    /\ [][(harvester = "video" /\ flat >= 1)
            => (scrolls' = scrolls /\ measures' = measures)]_vars
    /\ [](fetches <= 1)
    /\ [][fetches' # fetches
            => (/\ spc = "fetch"
                /\ fetches = 0
                /\ UNCHANGED <<scrolls, measures>>)]_vars
    /\ [][fetches >= 1 => UNCHANGED <<scrolls, measures, fetches>>]_vars
    /\ [](harvester = "video" /\ spc = "returned" => fetches = 1)

C13_Witness ==
    /\ harvester = "video"
    /\ spc = "returned"
    /\ flat = 1
    /\ fetches = 1
    /\ scrolls >= 3
    /\ measures = scrolls

\* C14: the shorts scroll loop counts the trailing scrolls that left the
\* height unchanged and resets the count at every change; it ends exactly
\* when that count reaches 3 or when 100 scrolls were issued; after one or
\* two stalled scrolls a scroll that changes the height leaves the loop
\* running unless it was the 100th.
C14_ShortsScrollLoop ==
    /\ [](harvester = "shorts" => (no_new_content = flat /\ flat <= StallLimit))
    /\ [](harvester = "shorts" => scrolls <= max_scrolls)
    /\ [](harvester = "shorts" /\ spc = "fetch"
            => (flat = StallLimit \/ scrolls = max_scrolls))
    /\ [](harvester = "shorts" /\ spc \in {"loop", "measure"}
            => flat < StallLimit)
    /\ [][(harvester = "shorts" /\ scrolls = max_scrolls)
            => scrolls' = scrolls]_vars
    /\ [][(harvester = "shorts" /\ spc = "loop" /\ scrolls < max_scrolls)
            => spc' \in {"loop", "measure", "failed", "raised"}]_vars
    /\ [][(harvester = "shorts" /\ spc = "measure" /\ spc' \notin Ended
           /\ flat \in {1, 2} /\ flat' = 0 /\ scrolls < max_scrolls)
            => (spc' = "loop" /\ no_new_content' = 0 /\ LoopGuard')]_vars

C14_Witness ==
    /\ harvester = "shorts"
    /\ spc = "measure"
    /\ flat = 0
    /\ maxflat = 2
    /\ scrolls = 4

\* ------------------------------------------------------------ shorts list
\* positions of the selected elements a record can be extracted from
Extractables(id) ==
    { p \in 1..Len(shorts_elements) :
         shorts_elements[p].id = id /\ shorts_elements[p].extractable }

IdsOf(seq) == [i \in 1..Len(seq) |-> seq[i].id]

EnrichFields == {"date", "place", "topic", "description"}

EnrichReturned == epc = "returned"

RECURSIVE FirstNonEmpty(_)
FirstNonEmpty(seq) ==
    IF Len(seq) = 1 \/ (Head(seq) # None /\ Head(seq) # "") THEN Head(seq)
    ELSE FirstNonEmpty(Tail(seq))

\* C16: in every record that enrich_video_metadata or enrich_shorts_metadata
\* returns, on every path (navigation, wait, content, extractor calls and
\* page date each succeeding, finding nothing or raising), date, place, topic
\* and description are non-empty strings.
C16_FieldsNonEmpty ==
    EnrichReturned =>
        \A f \in EnrichFields :
            /\ extracted_metadata[f] # None
            /\ extracted_metadata[f] # ""

C16_Witness ==
    /\ EnrichReturned
    /\ ekind = "video"
    /\ nav_failed
    /\ via = "combine"
    /\ extracted_metadata.date = DateSentinel
    /\ extracted_metadata.description = "General Documentation - Location Not Specified"

\* C17: when the resolution step writes the fields, the date is the first
\* non-empty of page date, description date, title date and "Date Not
\* Available", the place the first non-empty of description place, title
\* place and "Location Not Specified", the topic the first non-empty of
\* description topic, title topic and "General Documentation"; the title
\* signals are those of the title, the description signals exist only with a
\* description; the navigation fallback of the shorts code has no page and
\* no description signal and resolves title, then sentinel.
C17_ResolutionPrecedence ==
    /\ (EnrichReturned /\ via = "combine") =>
          /\ extracted_metadata.date =
                FirstNonEmpty(<<loc.page_date, loc.desc_date, loc.title_date,
                                DateSentinel>>)
          /\ extracted_metadata.place =
                FirstNonEmpty(<<loc.desc_place, loc.title_place,
                                PlaceSentinel>>)
          /\ extracted_metadata.topic =
                FirstNonEmpty(<<loc.desc_topic, loc.title_topic,
                                TopicSentinel>>)
          /\ loc.title_date \in {None, title.date}
          /\ loc.title_place \in {None, title.place}
          /\ loc.title_topic \in {None, title.topic}
          /\ ~trouble => (/\ loc.title_date = title.date
                          /\ loc.title_place = title.place
                          /\ loc.title_topic = title.topic)
          /\ ~Truthy(loc.description) =>
                (/\ loc.desc_date = None
                 /\ loc.desc_place = None
                 /\ loc.desc_topic = None)
    /\ (EnrichReturned /\ via = "nav_fallback") =>
          /\ loc.page_date = None
          /\ loc.desc_date = None
          /\ loc.desc_place = None
          /\ loc.desc_topic = None
          /\ extracted_metadata.date = FirstNonEmpty(<<title.date, DateSentinel>>)
          /\ extracted_metadata.place =
                FirstNonEmpty(<<title.place, PlaceSentinel>>)
          /\ extracted_metadata.topic =
                FirstNonEmpty(<<title.topic, TopicSentinel>>)

C17_Witness ==
    /\ EnrichReturned
    /\ via = "combine"
    /\ loc.page_date = None
    /\ loc.desc_date = "D-date"
    /\ loc.title_date = "T-date"
    /\ extracted_metadata.date = "D-date"
    /\ loc.desc_place = None
    /\ extracted_metadata.place = "T-place"
    /\ extracted_metadata.topic = TopicSentinel

\* C18: when page.goto of the detail page raised in enrich_video_metadata
\* and the page still holds the document it held before, the date, place and
\* topic of the returned record are the title's or the sentinels; nothing
\* comes from that document.
C18_NavFailureTitleOnly ==
    (EnrichReturned /\ ekind = "video" /\ nav_failed /\ page = "other") =>
        /\ extracted_metadata.date \in {title.date, DateSentinel}
        /\ extracted_metadata.place \in {title.place, PlaceSentinel}
        /\ extracted_metadata.topic \in {title.topic, TopicSentinel}

\* C19: a record returned for an item, video or short, for which no usable
\* description was found has the description "<topic> - <place>" built from
\* its resolved topic and place (stated for calls in which no extractor
\* raised).
C19_DescriptionSynthesized ==
    (EnrichReturned /\ ~trouble /\ ~Truthy(loc.description)) =>
        extracted_metadata.description =
            extracted_metadata.topic \o " - " \o extracted_metadata.place

\* C20: the record enrichment returns after an extractor call raised has
\* four non-empty fields, and a field for which an extraction had returned a
\* value before the failure does not hold its sentinel.
C20_FailureKeepsPartial ==
    (EnrichReturned /\ trouble) =>
        /\ \A f \in EnrichFields : Truthy(extracted_metadata[f])
        /\ "date" \in got => extracted_metadata.date # DateSentinel
        /\ "place" \in got => extracted_metadata.place # PlaceSentinel
        /\ "topic" \in got => extracted_metadata.topic # TopicSentinel

\* ------------------------------------------------------------ partitions
\* C27: at every point of every run, completed or aborted, no id has a
\* detail file under videos/ and another under shorts/.
C27_OnePartitionPerId ==
    \A id \in Ids : ~(<<"shorts", id>> \in files /\ <<"videos", id>> \in files)

\* -------------------------------------------------------- text extractors
Blank(t) == \A k \in 1..Len(t) : t[k] = " "

DateLabels ==
    { DateGroup(patterns[i], f) : i \in 1..Len(patterns), f \in Fragments }

LocationLabels ==
    { specific_locations[i] : i \in 1..Len(specific_locations) }
       \cup UNION { { LocationGroups(p, f)[j] :
                         j \in 1..Len(LocationGroups(p, f)) } :
                       p \in 1..NumLocationPatterns, f \in Fragments }
       \cup { None }

TopicLabels ==
    { topic_keywords[i] : i \in 1..Len(topic_keywords) }
       \cup { TopicGroup(p, f) : p \in 1..NumTopicPatterns, f \in Fragments }

FirstOf(pattern, t) ==
    DateGroup(pattern, t[Least({ k \in 1..Len(t) : DateGroup(pattern, t[k]) # None })])

HasDate(pattern, t) == \E k \in 1..Len(t) : DateGroup(pattern, t[k]) # None

\* C29: the date extractor returns the leftmost day-month-name-year match
\* when the text has one, wherever the other matches lie; otherwise the
\* leftmost ISO match; otherwise the leftmost D/M/YYYY match; otherwise
\* "no match"; the match is returned as written, also when it is no
\* calendar date.
C29_DatePatternOrder ==
    \A i \in 1..Len(calls) :
        calls[i].fn = "date" =>
            calls[i].out =
                IF HasDate("dmy", text) THEN FirstOf("dmy", text)
                ELSE IF HasDate("iso", text) THEN FirstOf("iso", text)
                ELSE IF HasDate("slash", text) THEN FirstOf("slash", text)
                ELSE None

C29_Witness ==
    /\ text = <<"2021-13-45.", "31 feb 2021.">>
    /\ Len(calls) >= 1
    /\ calls[1] = Call("date", "31 feb 2021")

NamedHits(t) ==
    { n \in 1..Len(specific_locations) :
         \E k \in 1..Len(t) : NamedMatch(specific_locations[n], t[k]) }

Rejected(location) ==
    \/ Len(location) <= 2
    \/ Len(location) >= 100
    \/ Lower(location) \in non_locations

\* C30: the location extractor returns the label of the first entry of the
\* named-place list that matches the text whenever one matches; otherwise
\* the first match of the generic patterns, taken pattern by pattern, that
\* is not rejected, or "no match" when there is none; a match of length
\* <= 2 or >= 100 or whose lower-case form is in the stoplist is never the
\* result.
C30_LocationPriority ==
    \A i \in 1..Len(calls) :
        calls[i].fn = "location" =>
            LET out == calls[i].out
                generic == MatchesFrom(1, 1, text)
                kept == { j \in 1..Len(generic) : ~Rejected(generic[j]) }
            IN  /\ NamedHits(text) # {} =>
                      out = specific_locations[Least(NamedHits(text))]
                /\ (NamedHits(text) = {} /\ kept # {}) =>
                      out = generic[Least(kept)]
                /\ (NamedHits(text) = {} /\ kept = {}) => out = None
                /\ NamedHits(text) = {} =>
                      \A j \in 1..Len(generic) :
                          Rejected(generic[j]) => out # generic[j]

C30_Witness ==
    /\ text = <<"in Video.", "in Haifa.">>
    /\ Len(calls) >= 1
    /\ calls[1] = Call("location", "Haifa")

\* ------------------------------------------------------------ detail files
\* C21: the file a successful save_video_metadata writes is named after the
\* slug of the title, of at most 100 characters, and after the id when the
\* slug is empty.
C21_FileNameSlugOrId ==
    saved.outcome = "ok" =>
        /\ Len(saved.name) <= SlugLimit
        /\ saved.name = IF sanitize_filename(saved.title) = <<>>
                           THEN <<ToString(saved.video_id)>>
                           ELSE sanitize_filename(saved.title)

\* C25: every complete detail file, of a video or of a short, has the four
\* sections, and its extracted_metadata has the keys title, date, place,
\* topic and description.
C25_DetailFileShape ==
    \A f \in disk :
        f.doc.complete =>
            /\ Sections \subseteq f.doc.sections
            /\ {"title", "date", "place", "topic", "description"}
                  \subseteq f.doc.extracted

\* C26: after a successful save_video_metadata for an id, the id's directory
\* in the partition of the save holds one JSON file, the one just written.
C26_OneFilePerDirectory ==
    saved.outcome = "ok" =>
        { f.name : f \in Dir(disk, saved.folder, saved.video_id) }
            = { saved.name }

\* ------------------------------------------------------------- query API
Sent(route) == response.outcome = "sent" /\ response.route = route

\* the keys of the persisted index: none when the document is missing or
\* cannot be parsed
PersistedKeys ==
    IF index_document.state = "parsed" THEN EntryIds(index_document.entries)
    ELSE {}

\* C22: GET /api/videos/<id> for an id that is no key of the persisted index
\* answers 404 with success false and the error "Video with ID <id> not
\* found", whether the index document is missing, unparsable or parsed.
C22_UnknownIdNotFound ==
    (Sent("get_video") /\ response.request.video_id \notin PersistedKeys) =>
        /\ response.status = 404
        /\ response.success = FALSE
        /\ response.error =
              "Video with ID " \o ToString(response.request.video_id)
                 \o " not found"

C22_Witness ==
    /\ Sent("get_video")
    /\ index_document.state = "unparsable"
    /\ disk # {}
    /\ response.request.video_id = 1
    /\ response.status = 404
    /\ response.error = "Video with ID 1 not found"

\* an entry passes the filters given in the request
Passes(e, request) ==
    /\ request.search # "" =>
          \E i \in 1..Len(e.title) : e.title[i] = request.search
    /\ request.place # "" =>
          (request.place = "hebron" /\ e.place = "Hebron")
    /\ request.topic # "" =>
          (request.topic = "wall" /\ e.topic = "Separation Wall/Barrier")

\* C23: GET /api/videos with filters and a limit L >= 0 returns the first L
\* entries, in insertion order of the index, among those that pass every
\* filter given (all of them when fewer pass); count is the number returned
\* and total the number of entries of the index.
C23_FilteredListLimited ==
    Sent("get_videos") =>
        LET request == response.request
            entries == index_document.entries
            passing == SelectSeq(entries, LAMBDA e : Passes(e, request))
            n == IF request.limit < Len(passing) THEN request.limit
                 ELSE Len(passing)
        IN  /\ response.status = 200
            /\ response.success
            /\ Len(response.videos) = n
            /\ \A i \in 1..n : response.videos[i].id = passing[i].video_id
            /\ response.count = n
            /\ response.total = Len(entries)

C23_Witness ==
    /\ Sent("get_videos")
    /\ Len(index_document.entries) = 2
    /\ \A i \in 1..2 : index_document.entries[i].place = "Hebron"
    /\ response.request.place = "hebron"
    /\ response.request.limit = 1
    /\ response.count = 1
    /\ response.total = 2
    /\ response.videos[1].id = index_document.entries[1].video_id

\* C28: for an id saved and indexed by a completed run, GET /api/videos/<id>
\* answers success with the record of the detail file, and the list endpoint
\* gives the description stored in that file.
C28_ApiFindsDetailFile ==
    /\ Sent("get_video") =>
          \A f \in disk :
              (/\ f.doc.complete
               /\ f.video_id = response.request.video_id
               /\ f.video_id \in PersistedKeys) =>
                  /\ response.status = 200
                  /\ response.success
                  /\ response.video = <<f.doc>>
    /\ Sent("get_videos") =>
          \A i \in 1..Len(response.videos) :
              \A f \in disk :
                  (f.doc.complete /\ f.video_id = response.videos[i].id) =>
                      response.videos[i].description = f.doc.description

====
